---------------------------- MODULE Spec2Model ----------------------------
(***************************************************************************)
(* A model of the Pulse prompt engine (src/src/prompt.rs, main.rs).        *)
(*                                                                         *)
(* Strings are sequences of characters; a character is a one-token string. *)
(* The glyphs the program prints are the tokens ELLIPSIS (U+2026),         *)
(* RAQUO (U+203A), BOX_UP_RIGHT (U+2514), BOX_HORIZ (U+2500); WIDE stands  *)
(* for any double-width (East Asian wide) character.                       *)
(* An Option<T> is a sequence of length 0 (None) or 1 (Some).              *)
(* A coloured string is a sequence of chunks [color, text]; the escape     *)
(* codes owo_colors wraps around a chunk are its color field.              *)
(***************************************************************************)
EXTENDS Integers, Sequences, FiniteSets, TLC

VARIABLES
    email,        \* Option<&str>: the identity (git user.email)
    repo_name,    \* &str
    branch,       \* &str
    nav_parts,    \* &[&str]: path segments below the repository root
    config,       \* the Config generate_prompt is given
    os,           \* what the operating system and git answer when asked
    call,         \* the last call made and what it returned
    stdout,       \* what the process has printed on standard output
    cached,       \* LazyGitInfo.cached: OnceCell<Option<GitInfo>>
    discoveries,  \* how many times the initializer of cached has run
    returned,     \* what the calls of LazyGitInfo::get returned, in order
    fs,           \* the files the program reads and writes
    merged        \* the configurations merged into config so far, in order

vars == <<email, repo_name, branch, nav_parts, config, os, call, stdout,
          cached, discoveries, returned, fs, merged>>

---------------------------------------------------------------------------
(* Bounds of the model *)

\* the most '@' characters an identity holds
MaxAt == 2
\* the most path segments
MaxSegs == 4
\* the widest terminal tried
MaxTermWidth == 14
\* at most this many calls of get on one LazyGitInfo
MaxGets == 3
\* at most this many calls of merge on one Config
MaxMerges == 2

---------------------------------------------------------------------------
(* Strings *)

None == << >>
Some(x) == << x >>
IsSome(o) == Len(o) = 1
Unwrap(o) == o[1]

ELLIPSIS == "ELLIPSIS"
RAQUO == "RAQUO"
AT == "@"
SP == " "

\* unicode_width: columns a character takes
CharWidth(c) == IF c = "WIDE" THEN 2 ELSE 1

RECURSIVE visual_width(_)
visual_width(s) ==
    IF s = << >> THEN 0 ELSE CharWidth(Head(s)) + visual_width(Tail(s))

\* [&str]::join(sep)
RECURSIVE Join(_, _)
Join(strs, sep) ==
    IF strs = << >> THEN << >>
    ELSE IF Len(strs) = 1 THEN strs[1]
    ELSE strs[1] \o sep \o Join(Tail(strs), sep)

\* index of the first c in s, 0 when there is none
RECURSIVE Find(_, _, _)
Find(s, c, i) ==
    IF i > Len(s) THEN 0
    ELSE IF s[i] = c THEN i
    ELSE Find(s, c, i + 1)

\* str::split(c): always one more piece than there are c's
RECURSIVE Split(_, _)
Split(s, c) ==
    LET i == Find(s, c, 1) IN
    IF i = 0 THEN << s >>
    ELSE << SubSeq(s, 1, i - 1) >> \o Split(SubSeq(s, i + 1, Len(s)), c)

\* str::split_once(c): Some((before, after)) of the first c
split_once(s, c) ==
    LET i == Find(s, c, 1) IN
    IF i = 0 THEN None
    ELSE Some(<< SubSeq(s, 1, i - 1), SubSeq(s, i + 1, Len(s)) >>)

---------------------------------------------------------------------------
(* Path truncation *)

TRUNCATION_THRESHOLD == 3

ConnectorSep == << SP, RAQUO, SP >>

\* mutant: keeps the first segments instead of the last
truncate_git_path_KeepsFirst(parts) ==
    IF parts = << >> THEN << >>
    ELSE IF Len(parts) > TRUNCATION_THRESHOLD
    THEN << ELLIPSIS, SP >>
         \o Join(SubSeq(parts, 1, TRUNCATION_THRESHOLD), ConnectorSep)
    ELSE Join(parts, ConnectorSep)

\* mutant: truncates from the threshold on (>= for >)
truncate_git_path_AtThreshold(parts) ==
    IF parts = << >> THEN << >>
    ELSE IF Len(parts) >= TRUNCATION_THRESHOLD
    THEN << ELLIPSIS, SP >>
         \o Join(SubSeq(parts, Len(parts) - TRUNCATION_THRESHOLD + 1, Len(parts)),
                 ConnectorSep)
    ELSE Join(parts, ConnectorSep)

truncate_git_path(parts) ==
    IF parts = << >> THEN << >>
    ELSE IF Len(parts) > TRUNCATION_THRESHOLD
    THEN << ELLIPSIS, SP >>
         \o Join(SubSeq(parts, Len(parts) - TRUNCATION_THRESHOLD + 1, Len(parts)),
                 ConnectorSep)
    ELSE Join(parts, ConnectorSep)

\* mutant: the inline flag drops the ellipsis
truncate_non_git_path_InlineNoEllipsis(root, parts, inline) ==
    IF parts = << >> THEN root
    ELSE IF Len(parts) > TRUNCATION_THRESHOLD
    THEN root \o (IF inline THEN << SP >> ELSE << SP, ELLIPSIS, SP >>)
         \o Join(SubSeq(parts, Len(parts) - TRUNCATION_THRESHOLD + 1, Len(parts)),
                 ConnectorSep)
    ELSE root \o << SP >> \o Join(parts, ConnectorSep)

truncate_non_git_path(root, parts, inline) ==
    IF parts = << >> THEN root
    ELSE IF Len(parts) > TRUNCATION_THRESHOLD
    THEN root \o << SP, ELLIPSIS, SP >>
         \o Join(SubSeq(parts, Len(parts) - TRUNCATION_THRESHOLD + 1, Len(parts)),
                 ConnectorSep)
    ELSE root \o << SP >> \o Join(parts, ConnectorSep)

---------------------------------------------------------------------------
(* Tiers: width formula, renderer, selector *)

\* GitDisplayMode, in the order select_display_mode tries them
Modes == << "Full", "Mini", "Micro", "Nano" >>

\* the width select_display_mode compares with the terminal width
calculate_git_prompt_width(mode, e, repo, br, parts) ==
    LET email_width ==
            IF IsSome(e)
            THEN LET so == split_once(Unwrap(e), AT) IN
                 IF IsSome(so)
                 THEN visual_width(Unwrap(so)[1]) + 1 + visual_width(Unwrap(so)[2])
                 ELSE visual_width(Unwrap(e))
            ELSE 0
        repo_len == visual_width(repo)
        branch_len == visual_width(br)
        nano_nav ==
            IF parts = << >> THEN 0
            ELSE IF Len(parts) = 1 THEN visual_width(parts[1])
            ELSE 3 + visual_width(<< RAQUO, SP >>) + visual_width(parts[Len(parts)])
        nav_width ==
            IF mode = "Nano" THEN nano_nav
            ELSE visual_width(truncate_git_path(parts))
        host_len ==
            IF IsSome(e)
            THEN LET so == split_once(Unwrap(e), AT) IN
                 IF IsSome(so) THEN visual_width(Unwrap(so)[2])
                 ELSE visual_width(Unwrap(e))
            ELSE 0
        last_dir_width == nano_nav
    IN  CASE mode = "Full" ->
               email_width + 3 + repo_len + 3 + branch_len + 2 + nav_width
          [] mode = "Mini" ->
               email_width + 3 + repo_len + 3 + 1 + 2 + nav_width
          [] mode = "Micro" ->
               1 + host_len + 3 + repo_len + 3 + 1 + 2 + nav_width
          [] mode = "Nano" ->
               1 + host_len + 3 + repo_len + 2 + last_dir_width

\* one coloured piece of output: text.color(c)
Chunk(c, t) == [color |-> c, text |-> t]

\* mutant: show_full is ignored, the user part is never shown
format_email_parts_HostOnly(e, colors, show_full) ==
    LET email_parts == Split(e, AT) IN
    IF Len(email_parts) = 2
    THEN << Chunk(colors.white, << AT >>),
            Chunk(colors.host_color, email_parts[2]) >>
    ELSE << Chunk(colors.user_color, e) >>

\* mutant: show_full is ignored, the user part is always shown
format_email_parts_AlwaysFull(e, colors, show_full) ==
    LET email_parts == Split(e, AT) IN
    IF Len(email_parts) = 2
    THEN << Chunk(colors.user_color, email_parts[1]),
            Chunk(colors.white, << AT >>),
            Chunk(colors.host_color, email_parts[2]) >>
    ELSE << Chunk(colors.user_color, e) >>

\* mutant: splits at the first '@' whenever there is one, as split_once does
format_email_parts_SplitOnce(e, colors, show_full) ==
    LET so == split_once(e, AT) IN
    IF IsSome(so)
    THEN (IF show_full THEN << Chunk(colors.user_color, Unwrap(so)[1]) >> ELSE << >>)
         \o << Chunk(colors.white, << AT >>),
               Chunk(colors.host_color, Unwrap(so)[2]) >>
    ELSE << Chunk(colors.user_color, e) >>

format_email_parts(e, colors, show_full) ==
    LET email_parts == Split(e, AT) IN
    IF Len(email_parts) = 2
    THEN (IF show_full THEN << Chunk(colors.user_color, email_parts[1]) >> ELSE << >>)
         \o << Chunk(colors.white, << AT >>),
               Chunk(colors.host_color, email_parts[2]) >>
    ELSE << Chunk(colors.user_color, e) >>

\* mutant: Mini keeps the branch name, as Full does
format_git_prompt_line_MiniShowsBranch(mode, e, repo, br, parts, colors) ==
    LET ident(show_full) ==
            IF IsSome(e) THEN format_email_parts(Unwrap(e), colors, show_full)
            ELSE << >>
        bracket(b) ==
            << Chunk(colors.white, << ":", SP, "[" >>),
               Chunk(colors.git_color, repo),
               Chunk(colors.white, << SP, ":", SP >>),
               Chunk(colors.git_color, b),
               Chunk(colors.white, << "]", SP >>) >>
        last_dir == IF parts = << >> THEN << >> ELSE parts[Len(parts)]
        head ==
            CASE mode = "Full" -> ident(TRUE) \o bracket(br)
              [] mode = "Mini" -> ident(TRUE) \o bracket(br)
              [] mode = "Micro" -> ident(FALSE) \o bracket(<< ELLIPSIS >>)
              [] mode = "Nano" ->
                   ident(FALSE)
                   \o << Chunk(colors.white, << ":", SP, "[" >>),
                         Chunk(colors.git_color, repo),
                         Chunk(colors.white, << "]", SP >>) >>
                   \o (IF Len(parts) = 0 THEN << >>
                       ELSE IF Len(parts) = 1
                       THEN << Chunk(colors.dir_color, last_dir) >>
                       ELSE << Chunk(colors.white, << ELLIPSIS, SP, RAQUO, SP >>),
                               Chunk(colors.dir_color, last_dir) >>)
    IN  IF mode # "Nano"
        THEN head \o << Chunk(colors.dir_color, truncate_git_path(parts)) >>
        ELSE head

\* mutant: the truncated path is appended in Nano too
format_git_prompt_line_NanoAppendsPath(mode, e, repo, br, parts, colors) ==
    LET ident(show_full) ==
            IF IsSome(e) THEN format_email_parts(Unwrap(e), colors, show_full)
            ELSE << >>
        bracket(b) ==
            << Chunk(colors.white, << ":", SP, "[" >>),
               Chunk(colors.git_color, repo),
               Chunk(colors.white, << SP, ":", SP >>),
               Chunk(colors.git_color, b),
               Chunk(colors.white, << "]", SP >>) >>
        last_dir == IF parts = << >> THEN << >> ELSE parts[Len(parts)]
        head ==
            CASE mode = "Full" -> ident(TRUE) \o bracket(br)
              [] mode = "Mini" -> ident(TRUE) \o bracket(<< ELLIPSIS >>)
              [] mode = "Micro" -> ident(FALSE) \o bracket(<< ELLIPSIS >>)
              [] mode = "Nano" ->
                   ident(FALSE)
                   \o << Chunk(colors.white, << ":", SP, "[" >>),
                         Chunk(colors.git_color, repo),
                         Chunk(colors.white, << "]", SP >>) >>
                   \o (IF Len(parts) = 0 THEN << >>
                       ELSE IF Len(parts) = 1
                       THEN << Chunk(colors.dir_color, last_dir) >>
                       ELSE << Chunk(colors.white, << ELLIPSIS, SP, RAQUO, SP >>),
                               Chunk(colors.dir_color, last_dir) >>)
    IN  head \o << Chunk(colors.dir_color, truncate_git_path(parts)) >>

format_git_prompt_line(mode, e, repo, br, parts, colors) ==
    LET ident(show_full) ==
            IF IsSome(e) THEN format_email_parts(Unwrap(e), colors, show_full)
            ELSE << >>
        bracket(b) ==
            << Chunk(colors.white, << ":", SP, "[" >>),
               Chunk(colors.git_color, repo),
               Chunk(colors.white, << SP, ":", SP >>),
               Chunk(colors.git_color, b),
               Chunk(colors.white, << "]", SP >>) >>
        last_dir == IF parts = << >> THEN << >> ELSE parts[Len(parts)]
        head ==
            CASE mode = "Full" -> ident(TRUE) \o bracket(br)
              [] mode = "Mini" -> ident(TRUE) \o bracket(<< ELLIPSIS >>)
              [] mode = "Micro" -> ident(FALSE) \o bracket(<< ELLIPSIS >>)
              [] mode = "Nano" ->
                   ident(FALSE)
                   \o << Chunk(colors.white, << ":", SP, "[" >>),
                         Chunk(colors.git_color, repo),
                         Chunk(colors.white, << "]", SP >>) >>
                   \o (IF Len(parts) = 0 THEN << >>
                       ELSE IF Len(parts) = 1
                       THEN << Chunk(colors.dir_color, last_dir) >>
                       ELSE << Chunk(colors.white, << ELLIPSIS, SP, RAQUO, SP >>),
                               Chunk(colors.dir_color, last_dir) >>)
    IN  IF mode # "Nano"
        THEN head \o << Chunk(colors.dir_color, truncate_git_path(parts)) >>
        ELSE head

\* the for loop of select_display_mode from the i-th mode on
RECURSIVE SelectFrom(_, _, _, _, _, _)
SelectFrom(i, terminal_width, e, repo, br, parts) ==
    IF i > Len(Modes) THEN "Nano"
    ELSE IF calculate_git_prompt_width(Modes[i], e, repo, br, parts) <= terminal_width
    THEN Modes[i]
    ELSE SelectFrom(i + 1, terminal_width, e, repo, br, parts)

\* mutant: falls back to the first tier when none fits
select_display_mode_FallbackFull(terminal_width, e, repo, br, parts, colors) ==
    LET fits == { i \in 1..Len(Modes) :
                    calculate_git_prompt_width(Modes[i], e, repo, br, parts)
                        <= terminal_width }
    IN  IF fits = { } THEN "Full"
        ELSE Modes[CHOOSE i \in fits : \A j \in fits : i <= j]

select_display_mode(terminal_width, e, repo, br, parts, colors) ==
    SelectFrom(1, terminal_width, e, repo, br, parts)

\* what the terminal shows of a coloured string (the tests' strip_ansi)
RECURSIVE strip_ansi(_)
strip_ansi(line) ==
    IF line = << >> THEN << >> ELSE Head(line).text \o strip_ansi(Tail(line))

---------------------------------------------------------------------------
(* generate_prompt and what it reads *)

DEFAULT_TERM_WIDTH == 120

\* anyhow::Result
Ok(v) == [ok |-> TRUE, val |-> v]
Err(m) == [ok |-> FALSE, err |-> m]

\* str::strip_prefix
StripPrefix(s, prefix) ==
    IF Len(prefix) <= Len(s) /\ SubSeq(s, 1, Len(prefix)) = prefix
    THEN Some(SubSeq(s, Len(prefix) + 1, Len(s)))
    ELSE None

\* .filter(|s| !s.is_empty())
RECURSIVE NonEmpty(_)
NonEmpty(strs) ==
    IF strs = << >> THEN << >>
    ELSE (IF Head(strs) = << >> THEN << >> ELSE << Head(strs) >>)
         \o NonEmpty(Tail(strs))

\* path.split('/').filter(|s| !s.is_empty()): the components of a path
Components(path) == NonEmpty(Split(path, "/"))

\* Path::strip_prefix: component-wise, Some(rest) when base is an ancestor
PathStripPrefix(path, base) ==
    LET pc == Components(path)
        bc == Components(base)
    IN  IF Len(bc) <= Len(pc) /\ SubSeq(pc, 1, Len(bc)) = bc
        THEN Some(SubSeq(pc, Len(bc) + 1, Len(pc)))
        ELSE None

get_terminal_width(o) == o.term_size

\* walks from the working directory up to the root looking for a .git directory
is_in_git_repo(o) ==
    IF ~IsSome(o.cwd) THEN FALSE
    ELSE LET pc == Components(Unwrap(o.cwd)) IN
         \E k \in 0..Len(pc) : SubSeq(pc, 1, k) \in o.dot_git_dirs

\* LazyGitInfo::get on a fresh cell: Some(GitInfo) or None
LazyGitInfo_get(o) ==
    IF ~IsSome(o.discover) THEN None
    ELSE LET repo == Unwrap(o.discover) IN
         IF ~IsSome(repo.work_dir) THEN None
         ELSE LET work_dir == Unwrap(repo.work_dir)
                  wc == Components(work_dir)
              IN  IF wc = << >> THEN None
                  ELSE IF ~IsSome(repo.head) THEN None
                  ELSE Some([repo_name |-> wc[Len(wc)],
                             branch |-> Unwrap(repo.head),
                             user_email |-> repo.user_email,
                             work_dir |-> work_dir])

get_username(o) ==
    IF IsSome(o.username) THEN Ok(Unwrap(o.username))
    ELSE Err("Unable to get username")

get_prompt_user(o) == get_username(o)

\* mutant: a machine without a host name is called localhost
get_hostname_OrLocalhost(o) ==
    IF IsSome(o.hostname) THEN Ok(Unwrap(o.hostname))
    ELSE Ok(<< "l", "o", "c", "a", "l", "h", "o", "s", "t" >>)

get_hostname(o) ==
    IF IsSome(o.hostname) THEN Ok(Unwrap(o.hostname))
    ELSE Err("Unable to get hostname")

get_current_directory(o) ==
    IF ~IsSome(o.cwd) THEN Err("current_dir")
    ELSE IF ~IsSome(o.home) THEN Err("Cannot determine home directory")
    ELSE LET path_str == Unwrap(o.cwd)
             stripped == StripPrefix(path_str, Unwrap(o.home))
         IN  IF IsSome(stripped)
             THEN LET rel == Unwrap(stripped)
                      relative == IF IsSome(StripPrefix(rel, << "/" >>))
                                  THEN Unwrap(StripPrefix(rel, << "/" >>))
                                  ELSE rel
                  IN  IF relative = << >> THEN Ok(<< "~" >>)
                      ELSE Ok(<< "~", "/" >> \o relative)
             ELSE Ok(path_str)

\* mutant: LAST_EXIT_CODE is looked up before PIPESTATUS
get_exit_code_LastExitCodeFirst(o) ==
    IF IsSome(o.LAST_EXIT_CODE) THEN Unwrap(o.LAST_EXIT_CODE)
    ELSE IF IsSome(o.PIPESTATUS) THEN Unwrap(o.PIPESTATUS)
    ELSE << "0" >>

\* std::env::var of PIPESTATUS, or else of LAST_EXIT_CODE, or else "0"
get_exit_code(o) ==
    IF IsSome(o.PIPESTATUS) THEN Unwrap(o.PIPESTATUS)
    ELSE IF IsSome(o.LAST_EXIT_CODE) THEN Unwrap(o.LAST_EXIT_CODE)
    ELSE << "0" >>

\* users::get_current_uid() is the real user id of the process
is_root_user(o) == o.uid = 0

\* Config::get_color
get_color(cfg, name) ==
    IF name \in DOMAIN cfg.segment_colors THEN cfg.segment_colors[name]
    ELSE CASE name = "username" -> "Blue"
           [] name = "hostname" -> "Green"
           [] name = "current_directory" -> "Silver"
           [] name = "git_branch" -> "Red"
           [] OTHER -> "White"

\* mutant: empty components of the directory are kept as segments
build_non_git_path_string_KeepsEmpty(dir, user, host, colors, mode) ==
    LET root == IF dir = << "~" >> \/ IsSome(StripPrefix(dir, << "~", "/" >>))
                THEN << "~" >> ELSE << "/" >>
        nav == IF dir = << "~" >> THEN << >>
               ELSE IF IsSome(StripPrefix(dir, << "~", "/" >>))
               THEN Unwrap(StripPrefix(dir, << "~", "/" >>))
               ELSE IF IsSome(StripPrefix(dir, << "/" >>))
               THEN Unwrap(StripPrefix(dir, << "/" >>))
               ELSE << >>
        parts == Split(nav, "/")
        path_display == truncate_non_git_path(root, parts, mode = "Inline")
    IN  << Chunk(colors.user_color, user),
           Chunk(colors.white, << AT >>),
           Chunk(colors.host_color, host),
           Chunk(colors.white, << ":" >>),
           Chunk(colors.dir_color, path_display) >>

build_non_git_path_string(dir, user, host, colors, mode) ==
    LET root == IF dir = << "~" >> \/ IsSome(StripPrefix(dir, << "~", "/" >>))
                THEN << "~" >> ELSE << "/" >>
        nav == IF dir = << "~" >> THEN << >>
               ELSE IF IsSome(StripPrefix(dir, << "~", "/" >>))
               THEN Unwrap(StripPrefix(dir, << "~", "/" >>))
               ELSE IF IsSome(StripPrefix(dir, << "/" >>))
               THEN Unwrap(StripPrefix(dir, << "/" >>))
               ELSE << >>
        parts == Components(nav)
        path_display == truncate_non_git_path(root, parts, mode = "Inline")
    IN  << Chunk(colors.user_color, user),
           Chunk(colors.white, << AT >>),
           Chunk(colors.host_color, host),
           Chunk(colors.white, << ":" >>),
           Chunk(colors.dir_color, path_display) >>

\* the path segments generate_prompt shows in a repository
git_nav_parts(o, info) ==
    LET relative == PathStripPrefix(Unwrap(o.cwd), info.work_dir) IN
    IF IsSome(relative) THEN Unwrap(relative) ELSE Components(Unwrap(o.cwd))

\* mutant: the tier is selected for the default width, not the terminal's
git_first_line_DefaultWidth(terminal_width, info, parts, colors) ==
    format_git_prompt_line(
        select_display_mode(DEFAULT_TERM_WIDTH, info.user_email, info.repo_name,
                            info.branch, parts, colors),
        info.user_email, info.repo_name, info.branch, parts, colors)

\* the first line generate_prompt builds in a repository
git_first_line(terminal_width, info, parts, colors) ==
    LET display_mode ==
            select_display_mode(terminal_width, info.user_email, info.repo_name,
                                info.branch, parts, colors)
    IN  format_git_prompt_line(display_mode, info.user_email, info.repo_name,
                               info.branch, parts, colors)

\* format!: text written without any colour
Plain(t) == Chunk("none", t)

\* mutant: a .git directory whose repository cannot be read is an error
generate_prompt_ErrWithoutGitInfo(cfg, o) ==
    LET mode == IF IsSome(cfg.mode) THEN Unwrap(cfg.mode) ELSE "DualLine"
        user == get_prompt_user(o)
        host == get_hostname(o)
        dir == get_current_directory(o)
        in_git == is_in_git_repo(o)
        exit_code == get_exit_code(o)
        colors == [user_color |-> get_color(cfg, "username"),
                   host_color |-> get_color(cfg, "hostname"),
                   git_color |-> get_color(cfg, "git_branch"),
                   white |-> "White",
                   dir_color |-> get_color(cfg, "current_directory")]
        terminal_width == IF IsSome(get_terminal_width(o))
                          THEN Unwrap(get_terminal_width(o))
                          ELSE DEFAULT_TERM_WIDTH
        git_info == IF in_git THEN LazyGitInfo_get(o) ELSE None
        first_line ==
            IF in_git /\ IsSome(git_info)
            THEN git_first_line(terminal_width, Unwrap(git_info),
                                git_nav_parts(o, Unwrap(git_info)), colors)
            ELSE build_non_git_path_string(dir.val, user.val, host.val, colors, mode)
        prompt_symbol == IF is_root_user(o) THEN "#" ELSE "$"
    IN  IF ~user.ok THEN user
        ELSE IF ~host.ok THEN host
        ELSE IF ~dir.ok THEN dir
        ELSE IF in_git /\ ~IsSome(git_info) THEN Err("Unable to read repository")
        ELSE IF mode = "Inline"
        THEN Ok(first_line \o << Plain(<< SP, prompt_symbol, SP >>) >>)
        ELSE Ok(first_line
                \o << Plain(<< "\n", "BOX_UP_RIGHT", "BOX_HORIZ", SP >> \o exit_code
                            \o << SP, prompt_symbol, SP >>) >>)

generate_prompt(cfg, o) ==
    LET mode == IF IsSome(cfg.mode) THEN Unwrap(cfg.mode) ELSE "DualLine"
        user == get_prompt_user(o)
        host == get_hostname(o)
        dir == get_current_directory(o)
        in_git == is_in_git_repo(o)
        exit_code == get_exit_code(o)
        colors == [user_color |-> get_color(cfg, "username"),
                   host_color |-> get_color(cfg, "hostname"),
                   git_color |-> get_color(cfg, "git_branch"),
                   white |-> "White",
                   dir_color |-> get_color(cfg, "current_directory")]
        terminal_width == IF IsSome(get_terminal_width(o))
                          THEN Unwrap(get_terminal_width(o))
                          ELSE DEFAULT_TERM_WIDTH
        git_info == IF in_git THEN LazyGitInfo_get(o) ELSE None
        first_line ==
            IF in_git /\ IsSome(git_info)
            THEN git_first_line(terminal_width, Unwrap(git_info),
                                git_nav_parts(o, Unwrap(git_info)), colors)
            ELSE build_non_git_path_string(dir.val, user.val, host.val, colors, mode)
        prompt_symbol == IF is_root_user(o) THEN "#" ELSE "$"
    IN  IF ~user.ok THEN user
        ELSE IF ~host.ok THEN host
        ELSE IF ~dir.ok THEN dir
        ELSE IF mode = "Inline"
        THEN Ok(first_line \o << Plain(<< SP, prompt_symbol, SP >>) >>)
        ELSE Ok(first_line
                \o << Plain(<< "\n", "BOX_UP_RIGHT", "BOX_HORIZ", SP >> \o exit_code
                            \o << SP, prompt_symbol, SP >>) >>)

---------------------------------------------------------------------------
(* Inputs *)

SeqsUpTo(S, n) == UNION { [1..k -> S] : k \in 0..n }

\* the pieces an identity has between its '@'s: empty, narrow, wide
IdPieces == { << >>, << "a" >>, << "WIDE", "WIDE", "b" >> }

Identities ==
    { None } \cup
    { Some(Join(ps, << AT >>)) : ps \in SeqsUpTo(IdPieces, MaxAt + 1) \ { << >> } }

RepoNames == { << "r" >>, << "WIDE", "p" >> }

BranchNames == { << >>, << "m" >>, << "d", "v" >> }

Segments == { << "a" >>, << "WIDE", "b" >>, << "c", "c" >> }

\* every path of at most MaxSegs segments
NavPaths == SeqsUpTo(Segments, MaxSegs)

\* the paths the tier functions are tried on: no segment repeats its neighbour
TierNavPaths ==
    { p \in SeqsUpTo({ << "a" >>, << "WIDE", "b" >> }, MaxSegs) :
        \A i \in 1..(Len(p) - 1) : p[i] # p[i + 1] }

Roots == { << "~" >>, << "/" >> }

\* the PromptColors generate_prompt builds from Config::default()
DefaultColors ==
    [user_color |-> "Blue", host_color |-> "Green", git_color |-> "Red",
     white |-> "White", dir_color |-> "Silver"]

TermWidths == 0..MaxTermWidth

\* Config::default(): the colour cache is empty until build_color_cache runs
DefaultConfig ==
    [segments |-> << [name |-> "username", color |-> Some("Blue")],
                     [name |-> "hostname", color |-> Some("Green")],
                     [name |-> "current_directory", color |-> Some("Silver")],
                     [name |-> "git_branch", color |-> Some("Red")] >>,
     mode |-> Some("DualLine"),
     segment_colors |-> << >>]

Configs ==
    { DefaultConfig,
      [DefaultConfig EXCEPT !.mode = Some("Inline")],
      [DefaultConfig EXCEPT !.mode = None,
                            !.segment_colors = [n \in { "username" } |-> "Navy"]] }

HomeDir == << "/", "h" >>
WorkDir == << "/", "h", "/", "w" >>

\* what gix::discover finds: the work tree, HEAD's branch name, user.email
Discovered(work_dir, head, user_email) ==
    Some([work_dir |-> work_dir, head |-> head, user_email |-> user_email])

\* a machine where everything answers: user u at host ho, in /h/w/a of the
\* repository /h/w on branch m, not root, a terminal of 12 columns, bash as
\* the login shell; uid is
\* the real user id (getuid, what users::get_current_uid reads), euid the
\* effective one
DefaultOs ==
    [username |-> Some(<< "u" >>),
     hostname |-> Some(<< "h", "o" >>),
     cwd |-> Some(WorkDir \o << "/", "a" >>),
     home |-> Some(HomeDir),
     dot_git_dirs |-> { Components(WorkDir) },
     discover |-> Discovered(Some(WorkDir), Some(<< "m" >>), Some(<< "a", AT, "b" >>)),
     PIPESTATUS |-> None,
     LAST_EXIT_CODE |-> None,
     uid |-> 1000,
     euid |-> 1000,
     SHELL |-> Some(<< "/", "b", "i", "n", "/", "b", "a", "s", "h" >>),
     term_size |-> Some(12)]

\* working directories inside the repository
RepoCwds == { IF p = << >> THEN WorkDir ELSE WorkDir \o << "/" >> \o Join(p, << "/" >>) :
              p \in TierNavPaths }

\* working directories outside it: the root, home, a sibling of home, far away
OtherCwds ==
    { << "/" >>, HomeDir, << "/", "h", "h", "/", "x" >>,
      << "/", "e", "/", "t", "/", "c", "/", "d" >> }

PromptEmails ==
    { None, Some(<< "a" >>), Some(<< "a", AT, "b" >>),
      Some(<< "WIDE", "WIDE", "b", AT, AT >>), Some(<< AT, "b", AT, "c" >>) }

PromptBranches == { << "m" >>, << "u", "n", "k", "n", "o", "w", "n" >> }

\* machines that differ in what decides the layout
LayoutOs ==
    { [DefaultOs EXCEPT !.term_size = t, !.cwd = Some(c),
                        !.discover = Discovered(Some(WorkDir), Some(b), e)] :
        t \in { None } \cup { Some(w) : w \in TermWidths },
        c \in RepoCwds \cup { << "/", "e" >> },
        b \in PromptBranches,
        e \in PromptEmails }

\* machines where a lookup fails or no repository is found
FailingOs ==
    { [DefaultOs EXCEPT !.username = u, !.hostname = h, !.cwd = c, !.home = hm,
                        !.dot_git_dirs = g, !.discover = d] :
        u \in { None, DefaultOs.username },
        h \in { None, DefaultOs.hostname },
        c \in { None, DefaultOs.cwd } \cup { Some(x) : x \in OtherCwds },
        hm \in { None, DefaultOs.home },
        g \in { { }, DefaultOs.dot_git_dirs, { << >> } },
        d \in { None, DefaultOs.discover,
                Discovered(None, Some(<< "m" >>), None),
                Discovered(Some(WorkDir), None, None),
                Discovered(Some(<< "/" >>), Some(<< "m" >>), None) } }

\* machines that differ in the exit code and the user id
AssemblyOs ==
    { [DefaultOs EXCEPT !.PIPESTATUS = ps, !.LAST_EXIT_CODE = le, !.uid = id,
                        !.euid = eid, !.dot_git_dirs = g] :
        ps \in { None, Some(<< "4", "2" >>) },
        le \in { None, Some(<< "1" >>) },
        id \in { 0, 1000 },
        eid \in { 0, 1000 },
        g \in { { }, DefaultOs.dot_git_dirs } }

\* the two values of the mode generate_prompt tells apart
PromptModes == { "Inline", "DualLine" }

UserNames == { << "u" >>, << "WIDE", "r" >> }

\* directory strings as get_current_directory writes them: "~", "~/..." or
\* "/...", with empty components (doubled and trailing slashes) among them
DirStrings ==
    LET Slash == { << >>, << "/" >> }
        Paths == { pre \o Join(p, << "/" >>) \o post :
                     p \in NavPaths, pre \in Slash, post \in Slash }
    IN  { << "~" >> } \cup { << "~", "/" >> \o q : q \in Paths }
        \cup { << "/" >> \o q : q \in Paths }

\* machines that differ in the two environment variables get_exit_code reads:
\* unset, empty, a number, not a number
ExitCodeOs ==
    { [DefaultOs EXCEPT !.PIPESTATUS = ps, !.LAST_EXIT_CODE = le] :
        ps \in { None, Some(<< >>), Some(<< "4", "2" >>), Some(<< "x" >>) },
        le \in { None, Some(<< >>), Some(<< "1" >>), Some(<< "-", "y" >>) } }

---------------------------------------------------------------------------
(* Configuration: files, Config::load, merge, validate (src/src/config.rs) *)

\* the colour names Clrs::from_str accepts
ClrsNames ==
    { "Navy", "Blue", "Aqua", "Teal", "Olive", "Green", "Lime", "Yellow",
      "Orange", "Red", "Maroon", "Fuchsia", "Purple", "Black", "Gray",
      "Silver", "White", "Magenta" }

\* <Clrs as FromStr>::from_str
parse_Clrs(str) == IF str \in ClrsNames THEN Ok(str) ELSE Err("Unknown color")

SegmentConfig(n, c) == [name |-> n, color |-> c]

\* a file as serde_yml sees it: YAML for a Config (segments and mode), text
\* that is not such YAML, or a file that cannot be read
Doc(segs, m) == [kind |-> "yaml", segments |-> segs, mode |-> m]
NotYaml == [kind |-> "not_yaml", segments |-> << >>, mode |-> None]
Unreadable == [kind |-> "unreadable", segments |-> << >>, mode |-> None]

\* std::fs::read_to_string, then serde_yml::from_str::<Config>: the colour
\* cache is skipped by serde and starts empty
from_str(doc) ==
    IF doc.kind = "unreadable" THEN Err("read_to_string")
    ELSE IF doc.kind = "not_yaml" THEN Err("serde_yml")
    ELSE Ok([segments |-> doc.segments, mode |-> doc.mode,
             segment_colors |-> << >>])

\* HashMap::insert
Insert(map, k, v) ==
    [n \in (DOMAIN map) \cup { k } |-> IF n = k THEN v ELSE map[n]]

\* the loop of build_color_cache over the segments from the i-th on
RECURSIVE CacheFrom(_, _, _)
CacheFrom(segs, i, map) ==
    IF i > Len(segs) THEN map
    ELSE IF IsSome(segs[i].color) /\ parse_Clrs(Unwrap(segs[i].color)).ok
    THEN CacheFrom(segs, i + 1,
                   Insert(map, segs[i].name, parse_Clrs(Unwrap(segs[i].color)).val))
    ELSE CacheFrom(segs, i + 1, map)

build_color_cache(cfg) ==
    [cfg EXCEPT !.segment_colors = CacheFrom(cfg.segments, 1, cfg.segment_colors)]

\* the loop of merge: each segment of other replaces the first segment of
\* the same name or is pushed at the end
RECURSIVE MergeSegments(_, _)
MergeSegments(segs, others) ==
    IF others = << >> THEN segs
    ELSE LET other_segment == Head(others)
             found == { i \in 1..Len(segs) : segs[i].name = other_segment.name }
             existing == CHOOSE i \in found : \A j \in found : i <= j
         IN  MergeSegments(IF found # { }
                           THEN [segs EXCEPT ![existing] = other_segment]
                           ELSE Append(segs, other_segment),
                           Tail(others))

\* mutant: merge takes the mode of the merged configuration when it has one
merge_TakesMode(self, other) ==
    build_color_cache(
        [self EXCEPT !.segments = MergeSegments(self.segments, other.segments),
                     !.mode = IF IsSome(other.mode) THEN other.mode ELSE self.mode])

merge(self, other) ==
    build_color_cache(
        [self EXCEPT !.segments = MergeSegments(self.segments, other.segments)])

ValidNames == { "username", "hostname", "current_directory", "git_branch" }

validate(cfg) ==
    LET bad == { i \in 1..Len(cfg.segments) :
                   \/ cfg.segments[i].name \notin ValidNames
                   \/ /\ IsSome(cfg.segments[i].color)
                      /\ ~parse_Clrs(Unwrap(cfg.segments[i].color)).ok }
        first == CHOOSE i \in bad : \A j \in bad : i <= j
    IN  IF bad = { } THEN Ok(<< >>)
        ELSE IF cfg.segments[first].name \notin ValidNames
        THEN Err("Invalid segment name")
        ELSE Err("Invalid color")

\* the part of Config::load that reads /etc/pulse/config.yaml
load_global(files) ==
    IF ~IsSome(files.global_config) THEN Ok(DefaultConfig)
    ELSE LET config0 == DefaultConfig
             global_config == from_str(Unwrap(files.global_config))
         IN  IF ~global_config.ok THEN global_config
             ELSE IF ~validate(config0).ok THEN validate(config0)
             ELSE Ok(merge(config0, global_config.val))

\* Config::load
Config_load(o, files) ==
    LET global == load_global(files)
        user_config == from_str(Unwrap(files.user_config))
    IN  IF ~global.ok THEN global
        ELSE IF ~IsSome(o.home) THEN Err("Cannot determine home directory")
        ELSE IF ~IsSome(files.user_config) THEN Ok(build_color_cache(global.val))
        ELSE IF ~user_config.ok THEN user_config
        ELSE IF ~validate(user_config.val).ok THEN validate(user_config.val)
        ELSE Ok(build_color_cache(merge(global.val, user_config.val)))

\* no configuration file and no rc file exist; bashrc and zshrc are the
\* contents of ~/.bashrc and ~/.zshrc
NoFiles ==
    [global_config |-> None, user_config |-> None, custom_config |-> None,
     bashrc |-> None, zshrc |-> None]

\* configuration files: valid ones, one with an unparseable colour, one
\* with an unknown segment name after a valid segment, and broken ones
ValidDocs ==
    { Doc(<< SegmentConfig("username", Some("Navy")) >>, None),
      Doc(<< SegmentConfig("username", None) >>, Some("Inline")),
      Doc(<< SegmentConfig("username", Some("Teal")),
             SegmentConfig("git_branch", Some("Olive")) >>, Some("DualLine")),
      Doc(<< >>, Some("Inline")) }

InvalidDocs ==
    { Doc(<< SegmentConfig("username", Some("blurple")) >>, None),
      Doc(<< SegmentConfig("hostname", Some("Lime")),
             SegmentConfig("time", Some("Navy")) >>, None) }

\* what can be at the path given with --config
CustomFiles ==
    { None, Some(Doc(<< SegmentConfig("username", Some("Navy")) >>, None)),
      Some(NotYaml) }

ConfigFiles ==
    { None } \cup { Some(d) : d \in ValidDocs \cup InvalidDocs \cup { NotYaml, Unreadable } }

---------------------------------------------------------------------------
(* Shell integration (src/src/install.rs) *)

\* A file is a string whose characters are "\n" and pieces of text that
\* hold no "\n": the three texts install writes are one piece each.
BASH_INSTALL_COMMENT == "# Pulse - PS1 prompt engine"
BASH_EXPORT_PS1 == "export PS1='$(pulse)'"
BASH_PROMPT_COMMAND == "export PROMPT_COMMAND='export LAST_EXIT_CODE=$?'"

ZSH_INSTALL_COMMENT == "# Pulse - PS1 prompt engine"
ZSH_EXPORT_PS1 == "export PS1='$(pulse)'"
ZSH_PROMPT_COMMAND == "export PROMPT_COMMAND='export LAST_EXIT_CODE=$?'"

\* str::ends_with
ends_with(s, suffix) ==
    /\ Len(suffix) <= Len(s)
    /\ SubSeq(s, Len(s) - Len(suffix) + 1, Len(s)) = suffix

\* str::contains for a pattern of one piece
contains(s, piece) == \E i \in 1..Len(s) : s[i] = piece

\* str::lines: the pieces between "\n", a final empty one dropped
str_lines(content) ==
    LET pieces == Split(content, "\n") IN
    IF pieces[Len(pieces)] = << >> THEN SubSeq(pieces, 1, Len(pieces) - 1)
    ELSE pieces

\* the path of the rc file of the login shell
get_shell_rc(o) ==
    IF ~IsSome(o.SHELL) THEN Err("SHELL environment variable not set")
    ELSE IF ~IsSome(o.home) THEN Err("Could not determine home directory")
    ELSE IF ends_with(Unwrap(o.SHELL), << "z", "s", "h" >>)
    THEN Ok(Unwrap(o.home) \o << "/", ".zshrc" >>)
    ELSE Ok(Unwrap(o.home) \o << "/", ".bashrc" >>)

shell_is_zsh(o) ==
    IF IsSome(o.SHELL) THEN ends_with(Unwrap(o.SHELL), << "z", "s", "h" >>)
    ELSE FALSE

\* the file at a path of get_shell_rc, and the files after writing it
FileAt(files, path) ==
    IF path[Len(path)] = ".zshrc" THEN files.zshrc ELSE files.bashrc

WriteAt(files, path, content) ==
    IF path[Len(path)] = ".zshrc" THEN [files EXCEPT !.zshrc = Some(content)]
    ELSE [files EXCEPT !.bashrc = Some(content)]

\* the files after append_to_file: the file is created when missing, the
\* content and a "\n" go to its end
append_to_file(files, path, content) ==
    LET file == FileAt(files, path) IN
    WriteAt(files, path,
            (IF IsSome(file) THEN Unwrap(file) ELSE << >>) \o content \o << "\n" >>)

\* mutant: a missing file counts as not installed
is_installed_MissingIsNotInstalled(files, path) ==
    LET file == FileAt(files, path) IN
    IF ~IsSome(file) THEN Ok(FALSE)
    ELSE Ok(contains(Unwrap(file), BASH_EXPORT_PS1))

is_installed(files, path) ==
    LET file == FileAt(files, path) IN
    IF ~IsSome(file) THEN Err("No such file or directory")
    ELSE Ok(contains(Unwrap(file), BASH_EXPORT_PS1))

\* the loop of remove_existing_install from line i on: filtered_lines
RECURSIVE FilteredLines(_, _, _)
FilteredLines(lines, i, skip_pulse_block) ==
    IF i > Len(lines) THEN << >>
    ELSE IF contains(lines[i], BASH_INSTALL_COMMENT)
    THEN FilteredLines(lines, i + 1, TRUE)
    ELSE IF skip_pulse_block
    THEN FilteredLines(lines, i + 1, lines[i] # << >>)
    ELSE << lines[i] >> \o FilteredLines(lines, i + 1, FALSE)

\* what remove_existing_install returns, and the files afterwards
remove_existing_install(files, path) ==
    LET file == FileAt(files, path)
        lines == str_lines(Unwrap(file))
        removed == \E i \in 1..Len(lines) : contains(lines[i], BASH_INSTALL_COMMENT)
    IN  IF ~IsSome(file)
        THEN [ret |-> Err("No such file or directory"), files |-> files]
        ELSE IF removed
        THEN [ret |-> Ok(TRUE),
              files |-> WriteAt(files, path,
                                Join(FilteredLines(lines, 1, FALSE), << "\n" >>))]
        ELSE [ret |-> Ok(FALSE), files |-> files]

\* println!: one uncoloured line on stdout
println(text) == Plain(text \o << "\n" >>)

\* what install returns, the files afterwards and what it prints
install(o, files) ==
    LET rc_path == get_shell_rc(o)
        path == rc_path.val
        installed == is_installed(files, path)
        removal == IF installed.val THEN remove_existing_install(files, path)
                   ELSE [ret |-> Ok(FALSE), files |-> files]
        is_zsh == shell_is_zsh(o)
        comment == IF is_zsh THEN ZSH_INSTALL_COMMENT ELSE BASH_INSTALL_COMMENT
        ps1_line == IF is_zsh THEN ZSH_EXPORT_PS1 ELSE BASH_EXPORT_PS1
        prompt_command_line ==
            IF is_zsh THEN ZSH_PROMPT_COMMAND ELSE BASH_PROMPT_COMMAND
        appended ==
            append_to_file(
                append_to_file(
                    append_to_file(
                        append_to_file(removal.files, path, << >>),
                        path, << comment >>),
                    path, << ps1_line >>),
                path, << prompt_command_line >>)
    IN  IF ~rc_path.ok THEN [ret |-> rc_path, files |-> files, out |-> << >>]
        ELSE IF ~installed.ok
        THEN [ret |-> installed, files |-> files, out |-> << >>]
        ELSE [ret |-> Ok(<< >>),
              files |-> appended,
              out |-> (IF installed.val
                       THEN << println(<< "Pulse is already installed in " >> \o path),
                               println(<< "Removing existing installation for upgrade..." >>) >>
                            \o (IF removal.ret.val
                                THEN << println(<< "Existing installation removed successfully" >>) >>
                                ELSE << >>)
                       ELSE << >>)
                      \o << println(<< "Pulse has been installed to " >> \o path),
                            println(<< "Please restart your shell or run 'source " >>
                                    \o path \o << "' to apply changes." >>) >>]

\* the lines an rc file is made of here: two lines of the user, an empty
\* line and the three lines install writes
MaxRcLines == 4

RcLines ==
    { << "alias x" >>, << "alias y" >>, << >>,
      << BASH_INSTALL_COMMENT >>, << BASH_EXPORT_PS1 >>, << BASH_PROMPT_COMMAND >> }

\* rc files: up to MaxRcLines lines, the last with or without its "\n"
RcFiles ==
    LET texts == UNION { [1..n -> RcLines] : n \in 0..MaxRcLines } IN
    { Join(t, << "\n" >>) : t \in texts }
    \cup { Join(t, << "\n" >>) \o << "\n" >> : t \in texts }

\* a few rc files: empty, a user's line, an installation after it
SmallRcFiles ==
    { None, Some(<< >>), Some(<< "alias x", "\n" >>),
      Some(<< "alias x", "\n", "\n", ZSH_INSTALL_COMMENT, "\n", ZSH_EXPORT_PS1,
              "\n", ZSH_PROMPT_COMMAND, "\n" >>) }

\* login shells and home directories: SHELL unset, bash, zsh, no home
InstallOs ==
    { [DefaultOs EXCEPT !.SHELL = sh, !.home = hm] :
        sh \in { None, DefaultOs.SHELL, Some(<< "/", "b", "i", "n", "/", "z", "s", "h" >>) },
        hm \in { None, DefaultOs.home } }

---------------------------------------------------------------------------
(* The tier functions, each run one call on the fields *)

NoCall == [op |-> "none", arg |-> << >>, ret |-> << >>]

fields == <<email, repo_name, branch, nav_parts, config, os,
            cached, discoveries, returned, fs, merged>>

\* LazyGitInfo::new(): an empty cell on which get was never called
NewLazyGitInfo ==
    /\ cached = None
    /\ discoveries = 0
    /\ returned = << >>

Init ==
    /\ email \in Identities
    /\ repo_name \in RepoNames
    /\ branch \in BranchNames
    /\ nav_parts \in TierNavPaths
    /\ config = DefaultConfig
    /\ os = DefaultOs
    /\ call = NoCall
    /\ stdout = << >>
    /\ NewLazyGitInfo
    /\ fs = NoFiles
    /\ merged = << >>

CallCalculateGitPromptWidth ==
    /\ call.op = "none"
    /\ \E i \in 1..Len(Modes) :
          call' = [op |-> "calculate_git_prompt_width", arg |-> << Modes[i] >>,
                   ret |-> calculate_git_prompt_width(Modes[i], email, repo_name,
                                                      branch, nav_parts)]
    /\ UNCHANGED << fields, stdout >>

CallFormatGitPromptLine ==
    /\ call.op = "none"
    /\ \E i \in 1..Len(Modes) :
          call' = [op |-> "format_git_prompt_line", arg |-> << Modes[i] >>,
                   ret |-> format_git_prompt_line(Modes[i], email, repo_name,
                                                  branch, nav_parts,
                                                  DefaultColors)]
    /\ UNCHANGED << fields, stdout >>

CallSelectDisplayMode ==
    /\ call.op = "none"
    /\ \E w \in TermWidths :
          call' = [op |-> "select_display_mode", arg |-> << w >>,
                   ret |-> select_display_mode(w, email, repo_name, branch,
                                               nav_parts, DefaultColors)]
    /\ UNCHANGED << fields, stdout >>

Next ==
    \/ CallCalculateGitPromptWidth
    \/ CallFormatGitPromptLine
    \/ CallSelectDisplayMode

Spec == Init /\ [][Next]_vars

---------------------------------------------------------------------------
(* The two path truncators, called on every path *)

InitTrunc ==
    /\ email = None
    /\ repo_name = << "r" >>
    /\ branch = << "m" >>
    /\ nav_parts \in NavPaths
    /\ config = DefaultConfig
    /\ os = DefaultOs
    /\ call = NoCall
    /\ stdout = << >>
    /\ NewLazyGitInfo
    /\ fs = NoFiles
    /\ merged = << >>

CallTruncateGitPath ==
    /\ call.op = "none"
    /\ call' = [op |-> "truncate_git_path", arg |-> << >>,
                ret |-> truncate_git_path(nav_parts)]
    /\ UNCHANGED << fields, stdout >>

CallTruncateNonGitPath ==
    /\ call.op = "none"
    /\ \E root \in Roots, inline \in BOOLEAN :
          call' = [op |-> "truncate_non_git_path", arg |-> << root, inline >>,
                   ret |-> truncate_non_git_path(root, nav_parts, inline)]
    /\ UNCHANGED << fields, stdout >>

NextTrunc ==
    \/ CallTruncateGitPath
    \/ CallTruncateNonGitPath

SpecTrunc == InitTrunc /\ [][NextTrunc]_vars

---------------------------------------------------------------------------
(* generate_prompt, run once on a machine *)

InitPrompt ==
    /\ email = None
    /\ repo_name = << "r" >>
    /\ branch = << "m" >>
    /\ nav_parts = << >>
    /\ config \in Configs
    /\ os \in LayoutOs \cup FailingOs \cup AssemblyOs
    /\ call = NoCall
    /\ stdout = << >>
    /\ NewLazyGitInfo
    /\ fs = NoFiles
    /\ merged = << >>

CallGeneratePrompt ==
    /\ call.op = "none"
    /\ call' = [op |-> "generate_prompt", arg |-> << >>,
                ret |-> generate_prompt(config, os)]
    /\ UNCHANGED << fields, stdout >>

\* the configuration main renders with: what Config::load returns, with the
\* mode overridden by --inline; args.config is not read
main_config(o, files, inline, config_path) ==
    LET loaded == Config_load(o, files) IN
    IF ~loaded.ok THEN loaded
    ELSE IF inline THEN Ok([loaded.val EXCEPT !.mode = Some("Inline")])
    ELSE loaded

\* main for a command line without --install and --generate-completions:
\* the configuration is loaded, --inline overrides its mode, the prompt is
\* generated and, only if all that succeeded, printed
Main ==
    /\ call.op = "none"
    /\ \E inline \in BOOLEAN, config_path \in { None, Some("custom") } :
          LET cfg == main_config(os, fs, inline, config_path)
              prompt == IF cfg.ok THEN generate_prompt(cfg.val, os) ELSE cfg
          IN  /\ call' = [op |-> "main", arg |-> << inline, config_path >>,
                          ret |-> IF prompt.ok THEN Ok(<< >>) ELSE prompt]
              /\ config' = IF cfg.ok THEN cfg.val ELSE config
              /\ stdout' = IF prompt.ok THEN stdout \o prompt.val ELSE stdout
    /\ UNCHANGED << email, repo_name, branch, nav_parts, os,
                    cached, discoveries, returned, fs, merged >>

NextPrompt ==
    \/ CallGeneratePrompt
    \/ Main

SpecPrompt == InitPrompt /\ [][NextPrompt]_vars

---------------------------------------------------------------------------
(* The functions generate_prompt builds on, each run one call *)

InitParts ==
    /\ email = None
    /\ repo_name = << "r" >>
    /\ branch = << "m" >>
    /\ nav_parts = << >>
    /\ config = DefaultConfig
    /\ os \in ExitCodeOs
    /\ call = NoCall
    /\ stdout = << >>
    /\ NewLazyGitInfo
    /\ fs = NoFiles
    /\ merged = << >>

CallBuildNonGitPathString ==
    /\ call.op = "none"
    /\ \E dir \in DirStrings, user \in UserNames, mode \in PromptModes :
          call' = [op |-> "build_non_git_path_string",
                   arg |-> << dir, user, mode >>,
                   ret |-> build_non_git_path_string(dir, user,
                                                     Unwrap(os.hostname),
                                                     DefaultColors, mode)]
    /\ UNCHANGED << fields, stdout >>

CallGetExitCode ==
    /\ call.op = "none"
    /\ call' = [op |-> "get_exit_code", arg |-> << >>, ret |-> get_exit_code(os)]
    /\ UNCHANGED << fields, stdout >>

NextParts ==
    \/ CallBuildNonGitPathString
    \/ CallGetExitCode

SpecParts == InitParts /\ [][NextParts]_vars

---------------------------------------------------------------------------
(* One LazyGitInfo, read several times while the repository changes *)

\* what gix::discover can find at different moments
DiscoverAnswers ==
    { None,
      DefaultOs.discover,
      Discovered(Some(WorkDir), Some(<< "d", "v" >>), None),
      Discovered(Some(<< "/", "e" >>), Some(<< "m" >>), None),
      Discovered(Some(WorkDir), Some(<< "m" >>), Some(<< "a" >>)),
      Discovered(Some(HomeDir), Some(<< "d", "v" >>), Some(<< "a", AT, "b" >>)),
      Discovered(Some(WorkDir), None, None) }

InitLazy ==
    /\ email = None
    /\ repo_name = << "r" >>
    /\ branch = << "m" >>
    /\ nav_parts = << >>
    /\ config = DefaultConfig
    /\ os \in { [DefaultOs EXCEPT !.discover = d] : d \in DiscoverAnswers }
    /\ call = NoCall
    /\ stdout = << >>
    /\ NewLazyGitInfo
    /\ fs = NoFiles
    /\ merged = << >>

\* mutant: get runs the discovery on every call
LazyGitInfoGet_Rediscovers ==
    /\ Len(returned) < MaxGets
    /\ cached' = Some(LazyGitInfo_get(os))
    /\ discoveries' = discoveries + 1
    /\ returned' = Append(returned, LazyGitInfo_get(os))
    /\ call' = [op |-> "LazyGitInfo::get", arg |-> << Len(returned) + 1 >>,
                ret |-> LazyGitInfo_get(os)]
    /\ UNCHANGED << email, repo_name, branch, nav_parts, config, os, stdout, fs,
                    merged >>

\* LazyGitInfo::get: cached.get_or_init(discovery).as_ref()
LazyGitInfoGet ==
    /\ Len(returned) < MaxGets
    /\ IF IsSome(cached)
       THEN UNCHANGED << cached, discoveries >>
       ELSE /\ cached' = Some(LazyGitInfo_get(os))
            /\ discoveries' = discoveries + 1
    /\ returned' = Append(returned, Unwrap(cached'))
    /\ call' = [op |-> "LazyGitInfo::get", arg |-> << Len(returned) + 1 >>,
                ret |-> Unwrap(cached')]
    /\ UNCHANGED << email, repo_name, branch, nav_parts, config, os, stdout, fs,
                    merged >>

\* between two calls the repository changes: another branch is checked out,
\* the work tree moves, the repository is deleted or created
ChangeRepository ==
    /\ \E d \in DiscoverAnswers \ { os.discover } :
          os' = [os EXCEPT !.discover = d]
    /\ UNCHANGED << email, repo_name, branch, nav_parts, config, call, stdout,
                    cached, discoveries, returned, fs, merged >>

NextLazy ==
    \/ LazyGitInfoGet
    \/ ChangeRepository

SpecLazy == InitLazy /\ [][NextLazy]_vars

---------------------------------------------------------------------------
(* Config::load and main on the files of a machine, and merges into one    *)
(* Config                                                                  *)

InitConfig ==
    /\ email = None
    /\ repo_name = << "r" >>
    /\ branch = << "m" >>
    /\ nav_parts = << >>
    /\ config = DefaultConfig
    /\ os \in { [DefaultOs EXCEPT !.term_size = None],
                [DefaultOs EXCEPT !.home = None] }
    /\ call = NoCall
    /\ stdout = << >>
    /\ NewLazyGitInfo
    /\ fs \in { [NoFiles EXCEPT !.global_config = g, !.user_config = u,
                                !.custom_config = c] :
                 g \in ConfigFiles, u \in ConfigFiles, c \in CustomFiles }
    /\ merged = << >>

CallConfigLoad ==
    /\ call.op = "none"
    /\ call' = [op |-> "Config::load", arg |-> << >>, ret |-> Config_load(os, fs)]
    /\ UNCHANGED << fields, stdout >>

\* config.merge(other) for a parsed configuration file
ConfigMerge ==
    /\ call.op \in { "none", "Config::merge" }
    /\ Len(merged) < MaxMerges
    /\ \E d \in ValidDocs \cup InvalidDocs :
          /\ config' = merge(config, from_str(d).val)
          /\ merged' = Append(merged, from_str(d).val)
          /\ call' = [op |-> "Config::merge", arg |-> << d >>, ret |-> << >>]
    /\ UNCHANGED << email, repo_name, branch, nav_parts, os, stdout,
                    cached, discoveries, returned, fs >>

NextConfig ==
    \/ CallConfigLoad
    \/ ConfigMerge
    \/ Main

SpecConfig == InitConfig /\ [][NextConfig]_vars

---------------------------------------------------------------------------
(* pulse --install and the functions of install.rs on the rc files of a    *)
(* machine                                                                 *)

MaxInstalls == 2

InitInstall ==
    /\ email = None
    /\ repo_name = << "r" >>
    /\ branch = << "m" >>
    /\ nav_parts = << >>
    /\ config = DefaultConfig
    /\ \/ /\ os = DefaultOs
          /\ fs \in { [NoFiles EXCEPT !.bashrc = Some(f)] : f \in RcFiles }
       \/ /\ os \in InstallOs
          /\ fs \in { [NoFiles EXCEPT !.bashrc = b, !.zshrc = z] :
                       b \in SmallRcFiles, z \in SmallRcFiles }
    /\ call = NoCall
    /\ stdout = << >>
    /\ NewLazyGitInfo
    /\ merged = << >>

\* main with --install; arg is the number of this run and the files before
Install ==
    /\ \/ call.op = "none"
       \/ call.op = "install" /\ call.arg[1] < MaxInstalls
    /\ LET done == install(os, fs) IN
          /\ call' = [op |-> "install",
                      arg |-> << IF call.op = "none" THEN 1 ELSE call.arg[1] + 1, fs >>,
                      ret |-> done.ret]
          /\ fs' = done.files
          /\ stdout' = stdout \o done.out
    /\ UNCHANGED << email, repo_name, branch, nav_parts, config, os,
                    cached, discoveries, returned, merged >>

\* is_installed on the rc file of the login shell, before or after installs
CallIsInstalled ==
    /\ call.op \in { "none", "install" }
    /\ get_shell_rc(os).ok
    /\ LET path == get_shell_rc(os).val IN
          call' = [op |-> "is_installed", arg |-> << path >>,
                   ret |-> is_installed(fs, path)]
    /\ UNCHANGED << fields, stdout >>

\* remove_existing_install on it; arg is the path and the files before
CallRemoveExistingInstall ==
    /\ call.op \in { "none", "install" }
    /\ get_shell_rc(os).ok
    /\ LET path == get_shell_rc(os).val
           done == remove_existing_install(fs, path)
       IN  /\ call' = [op |-> "remove_existing_install", arg |-> << path, fs >>,
                       ret |-> done.ret]
           /\ fs' = done.files
    /\ UNCHANGED << email, repo_name, branch, nav_parts, config, os, stdout,
                    cached, discoveries, returned, merged >>

NextInstall ==
    \/ Install
    \/ CallIsInstalled
    \/ CallRemoveExistingInstall

SpecInstall == InitInstall /\ [][NextInstall]_vars

---------------------------------------------------------------------------
(* Properties of the tier functions (specification Spec) *)

\* the visual width of what format_git_prompt_line shows for a tier
RenderedWidth(mode) ==
    visual_width(strip_ansi(
        format_git_prompt_line(mode, email, repo_name, branch, nav_parts,
                               DefaultColors)))

\* the width the selector computes for a tier
ComputedWidth(mode) ==
    calculate_git_prompt_width(mode, email, repo_name, branch, nav_parts)

ModeIndex(mode) == CHOOSE i \in 1..Len(Modes) : Modes[i] = mode

\* the number of '@' in a string
RECURSIVE CountAt(_)
CountAt(s) ==
    IF s = << >> THEN 0
    ELSE (IF Head(s) = AT THEN 1 ELSE 0) + CountAt(Tail(s))

Selected == call.op = "select_display_mode"

\* C1: whenever the Nano rendering fits the terminal, select_display_mode
\* returns the most verbose tier whose rendering fits: the rendering of the
\* returned tier fits and no tier before it has a rendering that fits.
C1_SelectsMostVerboseFitting ==
    (Selected /\ RenderedWidth("Nano") <= call.arg[1]) =>
        /\ RenderedWidth(call.ret) <= call.arg[1]
        /\ \A i \in 1..(ModeIndex(call.ret) - 1) :
              RenderedWidth(Modes[i]) > call.arg[1]

\* C2: select_display_mode returns Nano whenever the terminal is narrower
\* than the Nano rendering.
C2_NanoWhenNanoOverflows ==
    (Selected /\ call.arg[1] < RenderedWidth("Nano")) => call.ret = "Nano"

\* C3: for each tier the width calculate_git_prompt_width returns is the
\* visual width of the text format_git_prompt_line shows for that tier.
C3_ComputedWidthIsRenderedWidth ==
    call.op = "calculate_git_prompt_width" =>
        call.ret = RenderedWidth(call.arg[1])

\* C4: tier widths are monotonic, Full >= Mini >= Micro >= Nano, for the
\* rendered text and for the computed widths, whatever the fields (an empty
\* branch included): what a tier's rendering or width formula returns is at
\* least what every less verbose tier gives for the same fields.
C4_TierWidthsMonotonic ==
    /\ call.op = "format_git_prompt_line" =>
          \A j \in (ModeIndex(call.arg[1]) + 1)..Len(Modes) :
              visual_width(strip_ansi(call.ret)) >= RenderedWidth(Modes[j])
    /\ call.op = "calculate_git_prompt_width" =>
          \A j \in (ModeIndex(call.arg[1]) + 1)..Len(Modes) :
              call.ret >= ComputedWidth(Modes[j])

\* C28: select_display_mode overflows only when it cannot be avoided: the
\* rendering of a returned tier other than Nano fits the terminal, and when
\* the rendering of the returned tier overflows no less verbose tier has a
\* rendering that fits (identities with several '@' included).
C28_OverflowOnlyWhenUnavoidable ==
    Selected =>
        /\ call.ret # "Nano" => RenderedWidth(call.ret) <= call.arg[1]
        /\ RenderedWidth(call.ret) > call.arg[1] =>
              \A j \in (ModeIndex(call.ret) + 1)..Len(Modes) :
                  RenderedWidth(Modes[j]) > call.arg[1]

C10_FullText ==
    (/\ call.op = "format_git_prompt_line"
     /\ call.arg[1] = "Full"
     /\ IsSome(email)
     /\ CountAt(Unwrap(email)) = 1) =>
        strip_ansi(call.ret) =
            Unwrap(email) \o << ":", " ", "[" >> \o repo_name
            \o << " ", ":", " " >> \o branch \o << "]", " " >>
            \o truncate_git_path(nav_parts)

\* C10 witness: Full was rendered for user@host with a branch and a long path
C10_Witness ==
    /\ call.op = "format_git_prompt_line"
    /\ call.arg[1] = "Full"
    /\ IsSome(email)
    /\ CountAt(Unwrap(email)) = 1
    /\ Unwrap(email)[1] # AT
    /\ branch # << >>
    /\ Len(nav_parts) > TRUNCATION_THRESHOLD

\* what format_git_prompt_line was called for
Rendered(mode) == call.op = "format_git_prompt_line" /\ call.arg[1] = mode

\* the visible text of a tier's rendering when the branch is b
TierText(mode, b) ==
    strip_ansi(format_git_prompt_line(mode, email, repo_name, b, nav_parts,
                                      DefaultColors))

\* C11: the visible text of the Mini rendering is the visible text of the
\* Full rendering of the same fields with the branch replaced by the single
\* glyph "...", and it is the same for every branch name.
C11_MiniIsFullWithEllipsisBranch ==
    Rendered("Mini") =>
        /\ strip_ansi(call.ret) = TierText("Full", << "ELLIPSIS" >>)
        /\ \A b \in BranchNames : TierText("Mini", b) = strip_ansi(call.ret)

\* C11 witness: Mini was rendered for user@host on a branch with a path
C11_Witness ==
    /\ Rendered("Mini")
    /\ IsSome(email)
    /\ CountAt(Unwrap(email)) = 1
    /\ branch = << "d", "v" >>
    /\ Len(nav_parts) > TRUNCATION_THRESHOLD

\* the identity as a string, empty when there is none
IdentityText == IF IsSome(email) THEN Unwrap(email) ELSE << >>

\* an identity from its first '@' on
FromFirstAt(id) ==
    LET i == CHOOSE k \in 1..Len(id) : id[k] = AT /\ \A j \in 1..(k - 1) : id[j] # AT
    IN  SubSeq(id, i, Len(id))

\* what Micro and Nano show of the identity: "@" and the host when it has
\* exactly one '@', all of it otherwise
IdentitySuffix ==
    IF CountAt(IdentityText) = 1 THEN FromFirstAt(IdentityText) ELSE IdentityText

\* C12: the Micro rendering is the Mini rendering with the identity's user
\* part removed: it starts with "@" and the host when the identity has
\* exactly one '@' and with the whole identity otherwise, and what follows,
\* ": [repo : ...] " and the truncated path, is what follows the identity in
\* Mini.
C12_MicroIsMiniWithoutUser ==
    Rendered("Micro") =>
        LET mini == TierText("Mini", branch)
            rest == SubSeq(mini, Len(IdentityText) + 1, Len(mini))
        IN  /\ SubSeq(mini, 1, Len(IdentityText)) = IdentityText
            /\ rest = << ":", " ", "[" >> \o repo_name
                      \o << " ", ":", " ", "ELLIPSIS", "]", " " >>
                      \o truncate_git_path(nav_parts)
            /\ strip_ansi(call.ret) = IdentitySuffix \o rest

\* C12 witness: Micro was rendered for an identity with a user part, one '@'
\* and a host, with a path
C12_Witness ==
    /\ Rendered("Micro")
    /\ CountAt(IdentityText) = 1
    /\ IdentityText[1] # AT
    /\ IdentityText[Len(IdentityText)] # AT
    /\ nav_parts # << >>

\* s occurs in t as a contiguous substring
Contains(t, s) ==
    \E i \in 1..(Len(t) - Len(s) + 1) : SubSeq(t, i, i + Len(s) - 1) = s

\* C13: the visible text of Nano is the identity suffix, ": [", the repo and
\* "] ", followed by nothing for no segments, by the segment for exactly one,
\* and by "... > " and the last segment for two or more; the branch does not
\* influence it and the " : " separator is not in it.
C13_NanoText ==
    Rendered("Nano") =>
        /\ strip_ansi(call.ret) =
              IdentitySuffix \o << ":", " ", "[" >> \o repo_name \o << "]", " " >>
              \o (IF Len(nav_parts) = 0 THEN << >>
                  ELSE IF Len(nav_parts) = 1 THEN nav_parts[1]
                  ELSE << "ELLIPSIS", " ", "RAQUO", " " >>
                       \o nav_parts[Len(nav_parts)])
        /\ \A b \in BranchNames : TierText("Nano", b) = strip_ansi(call.ret)
        /\ ~Contains(strip_ansi(call.ret), << " ", ":", " " >>)

\* C13 witness: Nano was rendered for user@host on a branch, with a path of
\* two or more segments whose last but one differs from the last
C13_Witness ==
    /\ Rendered("Nano")
    /\ CountAt(IdentityText) = 1
    /\ IdentityText[1] # AT
    /\ branch # << >>
    /\ Len(nav_parts) >= 2
    /\ nav_parts[Len(nav_parts) - 1] # nav_parts[Len(nav_parts)]

\* C14: in every tier the identity is split into a user part and a host
\* part only when it has exactly one '@': then the user part (Full and Mini
\* only) is in the identity colour, "@" in white and the host in the host
\* colour; with no '@' or with two or more the whole identity is one piece
\* in the identity colour. ": [" follows in either case.
C14_SplitOnlyOnOneAt ==
    (call.op = "format_git_prompt_line" /\ IsSome(email)) =>
        LET id == Unwrap(email)
            at == FromFirstAt(id)
            user == SubSeq(id, 1, Len(id) - Len(at))
            host == SubSeq(at, 2, Len(at))
            shown_user == IF call.arg[1] \in { "Full", "Mini" }
                          THEN << Chunk(DefaultColors.user_color, user) >>
                          ELSE << >>
            pieces == IF CountAt(id) = 1
                      THEN shown_user
                           \o << Chunk(DefaultColors.white, << "@" >>),
                                 Chunk(DefaultColors.host_color, host) >>
                      ELSE << Chunk(DefaultColors.user_color, id) >>
        IN  /\ SubSeq(call.ret, 1, Len(pieces)) = pieces
            /\ call.ret[Len(pieces) + 1] =
                  Chunk(DefaultColors.white, << ":", " ", "[" >>)

\* C14 witness: a tier that omits the user part was rendered for an
\* identity with two '@' and text before the first
C14_Witness ==
    /\ call.op = "format_git_prompt_line"
    /\ call.arg[1] \in { "Micro", "Nano" }
    /\ CountAt(IdentityText) = 2
    /\ IdentityText[1] # AT

---------------------------------------------------------------------------
(* Properties of the truncators (specification SpecTrunc) *)

\* parts[from..] joined by " > ", written out segment by segment
RECURSIVE JoinedFrom(_, _)
JoinedFrom(parts, from) ==
    IF from > Len(parts) THEN << >>
    ELSE IF from = Len(parts) THEN parts[from]
    ELSE parts[from] \o << " ", "RAQUO", " " >> \o JoinedFrom(parts, from + 1)

\* C7: truncate_git_path gives the empty string for no segments, all
\* segments joined for 1 to 3, and the ellipsis, a space and the last 3
\* segments joined for more than 3.
C7_TruncateGitPath ==
    call.op = "truncate_git_path" =>
        call.ret =
            IF Len(nav_parts) = 0 THEN << >>
            ELSE IF Len(nav_parts) <= 3 THEN JoinedFrom(nav_parts, 1)
            ELSE << "ELLIPSIS", " " >> \o JoinedFrom(nav_parts, Len(nav_parts) - 2)

\* C7 witness: a path of more than 3 segments whose first segment differs
\* from the first one kept was truncated
C7_Witness ==
    /\ call.op = "truncate_git_path"
    /\ Len(nav_parts) > 3
    /\ nav_parts[1] # nav_parts[Len(nav_parts) - 2]
    /\ nav_parts[Len(nav_parts) - 2] # nav_parts[Len(nav_parts)]

\* C8: truncate_non_git_path gives root alone for no segments, root, a space
\* and all segments joined for 1 to 3, root, a space, the ellipsis, a space
\* and the last 3 segments joined for more than 3; the inline flag changes
\* nothing.
C8_TruncateNonGitPath ==
    call.op = "truncate_non_git_path" =>
        /\ call.ret =
              IF Len(nav_parts) = 0 THEN call.arg[1]
              ELSE IF Len(nav_parts) <= 3
              THEN call.arg[1] \o << " " >> \o JoinedFrom(nav_parts, 1)
              ELSE call.arg[1] \o << " ", "ELLIPSIS", " " >>
                   \o JoinedFrom(nav_parts, Len(nav_parts) - 2)
        /\ call.ret = truncate_non_git_path(call.arg[1], nav_parts, ~call.arg[2])

\* C8 witness: a path of more than 3 segments was truncated in inline mode
C8_Witness ==
    /\ call.op = "truncate_non_git_path"
    /\ call.arg[2]
    /\ Len(nav_parts) > 3
    /\ nav_parts[1] # nav_parts[Len(nav_parts) - 2]

\* C9: for a non-empty path truncate_non_git_path is root, a space and
\* truncate_git_path of the same segments; for the empty path it is root
\* alone where truncate_git_path is the empty string.
C9_SameTruncationPolicy ==
    call.op = "truncate_non_git_path" =>
        IF nav_parts # << >>
        THEN call.ret = call.arg[1] \o << " " >> \o truncate_git_path(nav_parts)
        ELSE call.ret = call.arg[1] /\ truncate_git_path(nav_parts) = << >>

\* C9 witness: both branches of the policy: a truncated path under root /
C9_Witness ==
    /\ call.op = "truncate_non_git_path"
    /\ call.arg[1] = << "/" >>
    /\ Len(nav_parts) > TRUNCATION_THRESHOLD
    /\ Len(call.ret) > Len(truncate_git_path(nav_parts))

---------------------------------------------------------------------------
(* Properties of generate_prompt (specification SpecPrompt) *)

Generated == call.op = "generate_prompt"

\* generate_prompt found itself in a repository
InRepository == is_in_git_repo(os) /\ IsSome(LazyGitInfo_get(os))

\* the terminal width generate_prompt works with
EffectiveWidth ==
    IF IsSome(os.term_size) THEN Unwrap(os.term_size) ELSE DEFAULT_TERM_WIDTH

\* the colours generate_prompt takes from the configuration
ConfiguredColors ==
    [user_color |-> get_color(config, "username"),
     host_color |-> get_color(config, "hostname"),
     git_color |-> get_color(config, "git_branch"),
     white |-> "White",
     dir_color |-> get_color(config, "current_directory")]

\* the tier select_display_mode returns for the fields of the repository
SelectedTier ==
    LET info == Unwrap(LazyGitInfo_get(os)) IN
    select_display_mode(EffectiveWidth, info.user_email, info.repo_name,
                        info.branch, git_nav_parts(os, info), ConfiguredColors)

\* the rendering of a tier for the fields of the repository
TierRendering(mode) ==
    LET info == Unwrap(LazyGitInfo_get(os)) IN
    format_git_prompt_line(mode, info.user_email, info.repo_name, info.branch,
                           git_nav_parts(os, info), ConfiguredColors)

\* C5: in a repository, what generate_prompt emits before the uncoloured
\* glyph suffix is exactly the rendering of the tier select_display_mode
\* returns for the same width and fields: the prompt is that rendering and
\* one uncoloured chunk (in DualLine the chunk begins the second line).
C5_FirstLineIsSelectedTier ==
    (Generated /\ call.ret.ok /\ InRepository) =>
        LET r == TierRendering(SelectedTier)
            p == call.ret.val
        IN  /\ Len(p) = Len(r) + 1
            /\ SubSeq(p, 1, Len(r)) = r
            /\ p[Len(p)].color = "none"
            /\ (config.mode # Some("Inline")) => p[Len(p)].text[1] = "\n"

\* C5 witness: a prompt was generated in a repository on a terminal where
\* the selected tier is neither the first nor the last
C5_Witness ==
    /\ Generated
    /\ call.ret.ok
    /\ InRepository
    /\ IsSome(os.term_size)
    /\ SelectedTier = "Micro"
    /\ TierRendering("Micro") # TierRendering("Mini")
    /\ git_nav_parts(os, Unwrap(LazyGitInfo_get(os))) # << >>

\* the first line generate_prompt builds: the selected tier in a repository,
\* the fallback rendering elsewhere
FirstLine ==
    IF InRepository THEN TierRendering(SelectedTier)
    ELSE build_non_git_path_string(get_current_directory(os).val,
                                   get_prompt_user(os).val, get_hostname(os).val,
                                   ConfiguredColors,
                                   IF IsSome(config.mode) THEN Unwrap(config.mode)
                                   ELSE "DualLine")

\* the number of occurrences of the character c in s
RECURSIVE Count(_, _)
Count(s, c) ==
    IF s = << >> THEN 0 ELSE (IF Head(s) = c THEN 1 ELSE 0) + Count(Tail(s), c)

\* C15: generate_prompt's output is, in Inline mode, the first line, a
\* space, the glyph and a space (one line, no exit code); in DualLine mode
\* the first line, a newline, the corner, a space, the exit code, a space,
\* the glyph and a space (two lines); the glyph is "#" exactly when the
\* effective uid is 0 and "$" otherwise.
C15_FinalAssembly ==
    (Generated /\ call.ret.ok) =>
        LET glyph == IF os.euid = 0 THEN "#" ELSE "$"
            text == strip_ansi(call.ret.val)
        IN  IF config.mode = Some("Inline")
            THEN /\ text = strip_ansi(FirstLine) \o << " ", glyph, " " >>
                 /\ Count(text, "\n") = 0
            ELSE /\ text = strip_ansi(FirstLine)
                           \o << "\n", "BOX_UP_RIGHT", "BOX_HORIZ", " " >>
                           \o get_exit_code(os) \o << " ", glyph, " " >>
                 /\ Count(text, "\n") = 1

\* the path the fallback rendering shows: the text of its last piece
FallbackPath == call.ret.val[5].text

\* C16: outside a repository the path shown starts with "~" exactly when the
\* working directory is the home directory or a descendant of it, component
\* by component, and with "/" otherwise; a directory that only shares a
\* string prefix with the home path is shown under "/".
C16_HomeRootChoice ==
    (Generated /\ call.ret.ok /\ ~InRepository) =>
        FallbackPath[1] =
            IF IsSome(PathStripPrefix(Unwrap(os.cwd), Unwrap(os.home)))
            THEN "~" ELSE "/"

\* a lookup generate_prompt depends on has no answer
FieldUnavailable ==
    \/ ~IsSome(os.username)
    \/ ~IsSome(os.hostname)
    \/ ~IsSome(os.cwd)
    \/ ~IsSome(os.home)

\* C18: if the username, the hostname, the working directory or the home
\* directory cannot be obtained, generate_prompt returns an error and main
\* returns it having printed nothing; what main prints is never a partial
\* prompt: standard output is empty or the whole prompt of a successful
\* generate_prompt.
C18_FailFast ==
    /\ (Generated /\ FieldUnavailable) => ~call.ret.ok
    /\ (call.op = "main" /\ FieldUnavailable) =>
          ~call.ret.ok /\ stdout = << >>
    /\ stdout # << >> =>
          /\ call.op = "main" /\ call.ret.ok /\ ~FieldUnavailable
          /\ stdout = generate_prompt(config, os).val

\* C18 witness: main ran on a machine that knows the user and the working
\* directory but not the host name
C18_Witness ==
    /\ call.op = "main"
    /\ IsSome(os.username)
    /\ ~IsSome(os.hostname)
    /\ IsSome(os.cwd)
    /\ IsSome(os.home)
    /\ ~call.ret.ok
    /\ stdout = << >>

\* the mode generate_prompt works in
EffectiveMode == IF IsSome(config.mode) THEN Unwrap(config.mode) ELSE "DualLine"

\* C19: when a .git directory is found but LazyGitInfo::get returns None,
\* and when no .git directory is found, generate_prompt succeeds and its
\* first line, all that precedes the uncoloured glyph suffix, is the
\* non-repository fallback rendering of user, host and directory.
C19_UndiscoverableIsFallback ==
    (/\ Generated
     /\ ~FieldUnavailable
     /\ (~is_in_git_repo(os) \/ ~IsSome(LazyGitInfo_get(os)))) =>
        /\ call.ret.ok
        /\ SubSeq(call.ret.val, 1, Len(call.ret.val) - 1) =
              build_non_git_path_string(get_current_directory(os).val,
                                        Unwrap(os.username), Unwrap(os.hostname),
                                        ConfiguredColors, EffectiveMode)
        /\ call.ret.val[Len(call.ret.val)].color = "none"

\* C19 witness: a prompt was generated below a .git directory whose
\* repository gix cannot read
C19_Witness ==
    /\ Generated
    /\ ~FieldUnavailable
    /\ is_in_git_repo(os)
    /\ ~IsSome(LazyGitInfo_get(os))
    /\ call.ret.ok

\* the lines of a text
Lines(text) == Split(text, "\n")

\* C21: the emitted prompt fits the terminal: whenever the Nano rendering
\* fits (in a repository), every line of generate_prompt's output, the glyph
\* suffix of Inline mode and the user@host:path line outside a repository
\* included, has a visual width of at most the terminal width.
C21_PromptFitsTerminal ==
    (/\ Generated
     /\ call.ret.ok
     /\ InRepository =>
           visual_width(strip_ansi(TierRendering("Nano"))) <= EffectiveWidth) =>
        \A i \in 1..Len(Lines(strip_ansi(call.ret.val))) :
            visual_width(Lines(strip_ansi(call.ret.val))[i]) <= EffectiveWidth

---------------------------------------------------------------------------
(* Properties of the functions generate_prompt builds on (SpecParts) *)

\* C17: for a directory that is "~" or starts with "~/" or "/", the visible
\* text of build_non_git_path_string is user "@" host ":" and
\* truncate_non_git_path of the root (the directory's first character) and
\* of the non-empty '/'-separated components after the root, in order; it is
\* the same for Inline and DualLine.
C17_NonGitFirstLine ==
    call.op = "build_non_git_path_string" =>
        LET dir == call.arg[1]
            user == call.arg[2]
            host == Unwrap(os.hostname)
            root == << dir[1] >>
            segments == NonEmpty(Split(Tail(dir), "/"))
        IN  /\ \A inline \in BOOLEAN :
                  strip_ansi(call.ret) =
                      user \o << "@" >> \o host \o << ":" >>
                      \o truncate_non_git_path(root, segments, inline)
            /\ \A mode \in PromptModes :
                  strip_ansi(build_non_git_path_string(dir, user, host,
                                                       DefaultColors, mode))
                      = strip_ansi(call.ret)

\* C17 witness: a directory under "~" with a doubled slash and more than
\* three segments was rendered for Inline
C17_Witness ==
    /\ call.op = "build_non_git_path_string"
    /\ call.arg[3] = "Inline"
    /\ call.arg[1][1] = "~"
    /\ Len(Components(Tail(call.arg[1]))) > TRUNCATION_THRESHOLD
    /\ Len(Split(Tail(call.arg[1]), "/")) > Len(Components(Tail(call.arg[1]))) + 1

\* C20: get_exit_code returns the value of PIPESTATUS when it is set,
\* otherwise the value of LAST_EXIT_CODE when that is set, otherwise "0";
\* the value is returned as it is, whether or not it is a number.
C20_ExitCodeLookup ==
    call.op = "get_exit_code" =>
        call.ret =
            IF os.PIPESTATUS # None THEN os.PIPESTATUS[1]
            ELSE IF os.LAST_EXIT_CODE # None THEN os.LAST_EXIT_CODE[1]
            ELSE << "0" >>

\* C20 witness: get_exit_code was called with PIPESTATUS set to something
\* that is not a number and LAST_EXIT_CODE set to a number
C20_Witness ==
    /\ call.op = "get_exit_code"
    /\ os.PIPESTATUS = Some(<< "x" >>)
    /\ os.LAST_EXIT_CODE = Some(<< "1" >>)
    /\ call.ret = << "x" >>

---------------------------------------------------------------------------
(* Properties of LazyGitInfo (specification SpecLazy) *)

\* C22: for one LazyGitInfo the discovery runs at most once however often
\* get is called; every get returns what the first one returned, Some or
\* None, even if the repository changed in between, and the cell keeps that
\* value.
C22_DiscoveredOnce ==
    /\ discoveries <= 1
    /\ \A i \in 1..Len(returned) : returned[i] = returned[1]
    /\ returned # << >> => discoveries = 1 /\ cached = Some(returned[1])

\* C22 witness: get was called more than once and the repository now is not
\* the one the first call found
C22_Witness ==
    /\ Len(returned) >= 2
    /\ discoveries = 1
    /\ IsSome(returned[1])
    /\ LazyGitInfo_get(os) # returned[1]

---------------------------------------------------------------------------
(* Properties of the configuration (specification SpecConfig) *)

\* a configuration file exists, is YAML and has a segment with an invalid
\* name or an unparseable colour
InvalidFile(file) ==
    /\ IsSome(file)
    /\ Unwrap(file).kind = "yaml"
    /\ \E i \in 1..Len(Unwrap(file).segments) :
          LET seg == Unwrap(file).segments[i] IN
          \/ seg.name \notin { "username", "hostname", "current_directory",
                               "git_branch" }
          \/ seg.color # None /\ seg.color[1] \notin ClrsNames

\* C23: Config::load returns an error whenever an existing configuration
\* file, the global one as well as the user's, has a segment with an invalid
\* name or an unparseable colour (so nothing of that file is merged).
C23_LoadRejectsInvalidFile ==
    (/\ call.op = "Config::load"
     /\ InvalidFile(fs.global_config) \/ InvalidFile(fs.user_config)) =>
        ~call.ret.ok

\* the segments of the default configuration followed by those of every
\* merged configuration from the i-th on
RECURSIVE SegmentsSince(_)
SegmentsSince(i) ==
    IF i = 0
    THEN << SegmentConfig("username", Some("Blue")),
            SegmentConfig("hostname", Some("Green")),
            SegmentConfig("current_directory", Some("Silver")),
            SegmentConfig("git_branch", Some("Red")) >> \o SegmentsSince(1)
    ELSE IF i > Len(merged) THEN << >>
    ELSE merged[i].segments \o SegmentsSince(i + 1)

\* the colour get_color returns when nothing is configured for a name
BuiltinColor(name) ==
    CASE name = "username" -> "Blue"
      [] name = "hostname" -> "Green"
      [] name = "current_directory" -> "Silver"
      [] name = "git_branch" -> "Red"
      [] OTHER -> "White"

\* the colour the most recently merged segment of a name asks for
ColorOfLatest(name) ==
    LET all == SegmentsSince(0)
        with == { i \in 1..Len(all) : all[i].name = name }
        latest == all[CHOOSE i \in with : \A j \in with : j <= i]
    IN  IF with # { } /\ latest.color # None /\ latest.color[1] \in ClrsNames
        THEN latest.color[1]
        ELSE BuiltinColor(name)

\* C24: after any sequence of merges into the default configuration,
\* get_color(name) is the colour of the most recently merged segment with
\* that name, or the built-in default of the name when that segment has no
\* colour; the colour of a replaced segment is never returned, new names are
\* added and names not mentioned keep their colour.
C24_MergePrecedence ==
    call.op = "Config::merge" =>
        \A name \in { "username", "hostname", "current_directory",
                      "git_branch", "time" } :
            get_color(config, name) = ColorOfLatest(name)

---------------------------------------------------------------------------
(* Properties of main (specification SpecConfig) *)

\* the colours of the pieces of a coloured string, in order
ColorsOf(line) == [i \in 1..Len(line) |-> line[i].color]

\* C25: --config <path> selects the configuration file: when it is given
\* (here with a valid file at that path and no global or user file beside
\* it), the prompt main prints is rendered with the configuration loaded
\* from that path: its pieces have the colours that file configures.
C25_ConfigOptionSelectsFile ==
    (/\ call.op = "main"
     /\ call.ret.ok
     /\ call.arg[2] # None
     /\ fs.custom_config # None
     /\ fs.custom_config[1].kind = "yaml"
     /\ ~InvalidFile(fs.custom_config)
     /\ fs.global_config = None
     /\ fs.user_config = None) =>
        ColorsOf(stdout) =
            ColorsOf(generate_prompt(
                         merge(DefaultConfig, from_str(fs.custom_config[1]).val),
                         os).val)

\* C29: Config::merge leaves the mode unchanged (after any merges into the
\* default configuration it is still the default "DualLine"); the mode of
\* the Config that Config::load returns is "DualLine" whatever the files
\* say; and main renders in Inline mode exactly when --inline is given.
C29_OnlyInlineChangesMode ==
    /\ call.op = "Config::merge" => config.mode = Some("DualLine")
    /\ (call.op = "Config::load" /\ call.ret.ok) =>
          call.ret.val.mode = Some("DualLine")
    /\ (call.op = "main" /\ call.ret.ok) =>
          /\ config.mode = IF call.arg[1] THEN Some("Inline") ELSE Some("DualLine")
          /\ Count(strip_ansi(stdout), "\n") = IF call.arg[1] THEN 0 ELSE 1

\* C29 witness: main ran without --inline where the user's file asks for
\* Inline, and printed two lines
C29_Witness ==
    /\ call.op = "main"
    /\ call.ret.ok
    /\ ~call.arg[1]
    /\ fs.user_config # None
    /\ fs.user_config[1].mode = Some("Inline")
    /\ Count(strip_ansi(stdout), "\n") = 1

---------------------------------------------------------------------------
(* Properties of the installer (specification SpecInstall) *)

\* the lines of a file that install does not write: neither empty nor the
\* comment, the PS1 export or the PROMPT_COMMAND export
RECURSIVE UserLines(_)
UserLines(lines) ==
    IF lines = << >> THEN << >>
    ELSE (IF Head(lines) \in { << >>, << BASH_INSTALL_COMMENT >>,
                               << BASH_EXPORT_PS1 >>, << BASH_PROMPT_COMMAND >> }
          THEN << >> ELSE << Head(lines) >>)
         \o UserLines(Tail(lines))

\* the rc file before and after the last call of remove_existing_install
RcBefore == FileAt(call.arg[2], call.arg[1])
RcAfter == FileAt(fs, call.arg[1])

\* C26: remove_existing_install removes only the Pulse block: the lines
\* that are not lines install wrote are all there afterwards in their
\* order, and a file without a line holding the Pulse comment makes it
\* return false and stays as it was.
C26_RemovesOnlyPulseBlock ==
    (call.op = "remove_existing_install" /\ call.ret.ok) =>
        /\ UserLines(str_lines(Unwrap(RcAfter))) =
              UserLines(str_lines(Unwrap(RcBefore)))
        /\ ~contains(Unwrap(RcBefore), BASH_INSTALL_COMMENT) =>
              /\ call.ret.val = FALSE
              /\ RcAfter = RcBefore

\* how many lines of a file are exactly this text
RECURSIVE CountLines(_, _)
CountLines(lines, text) ==
    IF lines = << >> THEN 0
    ELSE (IF Head(lines) = text THEN 1 ELSE 0) + CountLines(Tail(lines), text)

\* the rc file of the login shell
ShellRc(files) == FileAt(files, get_shell_rc(os).val)

\* C27: after any number of successful installs the rc file holds exactly
\* one Pulse block (one comment line, one PS1 export, one PROMPT_COMMAND
\* export), and a second install leaves the content of the first.
C27_InstallIdempotent ==
    (call.op = "install" /\ call.ret.ok) =>
        /\ CountLines(str_lines(Unwrap(ShellRc(fs))), << BASH_INSTALL_COMMENT >>) = 1
        /\ CountLines(str_lines(Unwrap(ShellRc(fs))), << BASH_EXPORT_PS1 >>) = 1
        /\ CountLines(str_lines(Unwrap(ShellRc(fs))), << BASH_PROMPT_COMMAND >>) = 1
        /\ call.arg[1] >= 2 => fs = call.arg[2]

\* C30: when the rc file of the login shell does not exist, is_installed
\* returns an error, install returns an error too, and no file is created
\* or written.
C30_MissingRcIsAnError ==
    /\ (call.op = "is_installed" /\ FileAt(fs, call.arg[1]) = None) =>
          ~call.ret.ok
    /\ (call.op = "install" /\ get_shell_rc(os).ok
          /\ ShellRc(call.arg[2]) = None) =>
          /\ ~call.ret.ok
          /\ call.ret = is_installed(call.arg[2], get_shell_rc(os).val)
          /\ fs = call.arg[2]

\* C30 witness: install ran for a shell whose rc file is missing, the
\* other shell's rc file being there
C30_Witness ==
    /\ call.op = "install"
    /\ get_shell_rc(os).ok
    /\ ShellRc(call.arg[2]) = None
    /\ call.arg[2].bashrc # call.arg[2].zshrc

=============================================================================
